---- MODULE Spec2Model ----
(***************************************************************************)
(* Stonehenge (src/stonehenge.py) and the minimax evaluators and           *)
(* strategies played on it (src/strategy.py, src/tree.py).                 *)
(*                                                                         *)
(* A cell is its index in StonehengeState.CELLS (0 = 'A', 1 = 'B', ...),   *)
(* a marker is one of the strings "@", "1", "2", and a state is the record *)
(* of the fields of a StonehengeState.                                     *)
(***************************************************************************)
EXTENDS Integers, Sequences, FiniteSets, TLC

\* Board sizes the games are started with (side_length of StonehengeGame).
BoardSizes == {1, 2}

\* A larger board, on which the game is played without the evaluators.
LargeSizes == {3}

\* The evaluators and strategies are called on states with at most this many
\* unclaimed cells.
MaxEmpty == 3

\* The assignments to one attribute of a Tree are counted up to this many.
MaxCount == 2

\* Python's None, and a value that is not None
None == <<>>
Some(v) == <<v>>
Val(o) == o[1]

----------------------------------------------------------------------------
(* Sequence helpers standing for Python's list operations. *)

\* sum([...]) of a list of naturals
RECURSIVE SumSeq(_)
SumSeq(s) == IF s = <<>> THEN 0 ELSE Head(s) + SumSeq(Tail(s))

\* max([...]) of a non-empty list of integers
RECURSIVE MaxSeq(_)
MaxSeq(s) ==
    IF Len(s) = 1 THEN s[1]
    ELSE LET m == MaxSeq(Tail(s)) IN IF Head(s) >= m THEN Head(s) ELSE m

\* list.index(x): the position of the first occurrence of x
IndexOf(s, x) == CHOOSE i \in 1..Len(s) :
    s[i] = x /\ \A j \in 1..(i - 1) : s[j] # x

\* s[-1]
Last(s) == s[Len(s)]

----------------------------------------------------------------------------
(* The ley-lines of a board. *)

\* start + lo, start + lo + (lo + 1), ... : the running sums of the loops
\* "for n in range(lo, hi + 1): append(start + n); start += n"
RECURSIVE Walk(_, _, _)
Walk(start, lo, hi) ==
    IF lo > hi THEN <<>>
    ELSE <<start + lo>> \o Walk(start + lo, lo + 1, hi)

create_ley_dl(board_size) ==
    LET first == <<0>> \o Walk(0, 2, board_size)
        heads == <<1>> \o Walk(1, 3, board_size + 1)
        \* the list at Python index n, 1 <= n <= board_size
        other(n) ==
            IF n < board_size
            THEN LET body == <<heads[n]>> \o Walk(heads[n], n + 1, board_size)
                 IN  body \o <<Last(body) + board_size>>
            ELSE <<heads[n], heads[n] + board_size>>
    IN  <<first>> \o [n \in 1..board_size |-> other(n)]

create_ley_dr(board_size) ==
    LET first == <<1>> \o Walk(1, 3, board_size + 1)
        heads == <<0>> \o Walk(0, 2, board_size)
        other(n) ==
            IF n < board_size
            THEN LET body == <<heads[n]>> \o Walk(heads[n], n + 2, board_size + 1)
                 IN  body \o <<Last(body) + board_size + 1>>
            ELSE <<heads[n], heads[n] + board_size + 1>>
    IN  <<first>> \o [n \in 1..board_size |-> other(n)]

\* the first cell of the row that "for n in range(2, k)" reaches
RECURSIVE RowStart(_)
RowStart(k) == IF k <= 2 THEN 0 ELSE RowStart(k - 1) + (k - 1)

create_ley_row(board_size) ==
    [r \in 1..(board_size + 1) |->
        IF r <= board_size
        THEN [i \in 1..(r + 1) |-> RowStart(r + 1) + i - 1]
        ELSE [i \in 1..board_size |-> RowStart(board_size + 2) + i - 1]]

\* sum(range(3, 3 + board_size))
num_cells(board_size) == SumSeq([i \in 1..board_size |-> i + 2])

\* self.ley of a state of each board size: [ley_dl, ley_dr, ley_row]
Ley == [n \in BoardSizes \cup LargeSizes |->
           <<create_ley_dl(n), create_ley_dr(n), create_ley_row(n)>>]

----------------------------------------------------------------------------
(* Markers, winners, moves. *)

Count(line, state, who) == Cardinality({i \in 1..Len(line) : state[line[i]] = who})

\* cellN / len(list_) >= 0.5, on integers
AtLeastHalf(k, n) == 2 * k >= n

\* the marker create_markers gives one ley-line
MarkerStrict(line, state) ==
    IF 2 * Count(line, state, 1) > Len(line) THEN "1"
    ELSE IF 2 * Count(line, state, 2) > Len(line) THEN "2"
    ELSE "@"

Marker(line, state) ==
    IF AtLeastHalf(Count(line, state, 1), Len(line)) THEN "1"
    ELSE IF AtLeastHalf(Count(line, state, 2), Len(line)) THEN "2"
    ELSE "@"

create_markers(lines, state) == [i \in 1..Len(lines) |-> Marker(lines[i], state)]

PlayerStr(player) == IF player = 1 THEN "1" ELSE "2"

AllMarks(state) == state.mark_dl \o state.mark_dr \o state.mark_row

is_winner(state, player) ==
    LET lines == AllMarks(state)
        num == Cardinality({i \in 1..Len(lines) : lines[i] = PlayerStr(player)})
    IN  AtLeastHalf(num, Len(lines))

\* len(self.mark_dl) - 1
board_size_of(state) == Len(state.mark_dl) - 1

StonehengeState(is_p1_turn, board_size) ==
    LET cells == [c \in 0..(num_cells(board_size) - 1) |-> 0]
    IN  [p1_turn |-> is_p1_turn,
         cell_state |-> cells,
         mark_dl |-> create_markers(Ley[board_size][1], cells),
         mark_dr |-> create_markers(Ley[board_size][2], cells),
         mark_row |-> create_markers(Ley[board_size][3], cells)]

\* the keys of cell_state in insertion order whose value is 0
RECURSIVE FreeFrom(_, _)
FreeFrom(cells, c) ==
    IF c \notin DOMAIN cells THEN <<>>
    ELSE (IF cells[c] = 0 THEN <<c>> ELSE <<>>) \o FreeFrom(cells, c + 1)

\* (get_possible_moves_always: the unclaimed cells, whoever has won)
get_possible_moves_always(state) == FreeFrom(state.cell_state, 0)

get_possible_moves(state) ==
    IF ~is_winner(state, 1) /\ ~is_winner(state, 2)
    THEN FreeFrom(state.cell_state, 0)
    ELSE <<>>

\* 1 if self.p1_turn else 2
ClaimNothing(p1_turn) == 0

ClaimSwapped(p1_turn) == IF p1_turn THEN 2 ELSE 1

Claim(p1_turn) == IF p1_turn THEN 1 ELSE 2

\* [old[i] if old[i] != '@' else new[i] for i in range(len(old))]
KeepOld(old, new) == old

KeepNew(old, new) == [i \in 1..Len(old) |-> new[i]]

Keep(old, new) == [i \in 1..Len(old) |-> IF old[i] # "@" THEN old[i] ELSE new[i]]

\* One call self.make_move(move): the object it is called on as the call
\* leaves it (self), and the state it returns (new_state).
\* (make_move_aliased: new_state.cell_state = self.cell_state, no copy.)
make_move_aliased(self, move) ==
    LET ley == Ley[board_size_of(self)]
        cells == [self.cell_state EXCEPT ![move] = Claim(self.p1_turn)]
        new_state ==
            [p1_turn |-> ~self.p1_turn,
             cell_state |-> cells,
             mark_dl |-> Keep(self.mark_dl, create_markers(ley[1], cells)),
             mark_dr |-> Keep(self.mark_dr, create_markers(ley[2], cells)),
             mark_row |-> Keep(self.mark_row, create_markers(ley[3], cells))]
    IN  [self |-> [self EXCEPT !.cell_state = cells], new_state |-> new_state]

make_move_call(self, move) ==
    LET ley == Ley[board_size_of(self)]
        \* self.cell_state.copy(), then the assignment to the copy
        cells == [self.cell_state EXCEPT ![move] = Claim(self.p1_turn)]
        new_state ==
            [p1_turn |-> ~self.p1_turn,
             cell_state |-> cells,
             mark_dl |-> Keep(self.mark_dl, create_markers(ley[1], cells)),
             mark_dr |-> Keep(self.mark_dr, create_markers(ley[2], cells)),
             mark_row |-> Keep(self.mark_row, create_markers(ley[3], cells))]
    IN  [self |-> self, new_state |-> new_state]

make_move(state, move) == make_move_call(state, move).new_state

\* StonehengeGame.is_over
is_over(state) == is_winner(state, 1) \/ is_winner(state, 2)

\* [state.make_move(m) for m in state.get_possible_moves()]
Successors(state) ==
    LET ms == get_possible_moves(state)
    IN  [i \in 1..Len(ms) |-> make_move(state, ms[i])]

Empties(state) == Len(FreeFrom(state.cell_state, 0))

----------------------------------------------------------------------------
(* The program state. *)

VARIABLES
    current_state,  \* game.current_state, the focus of the winner queries
    entry_state,    \* game.current_state as it was when the running call began
    pc,             \* where control is
    call,           \* the function a caller invoked, "none" between calls
    arg,            \* the state the next state_score_r invocation is given
    old_state,      \* the local old_state of the evaluator at a terminal state
    frames,         \* the suspended invocations of state_score_r, outermost first
    nodes,          \* the Tree objects of the running state_score_i, by identity
    stack,          \* the local stack of state_score_i (identities of Trees)
    tree,           \* the local tree of state_score_i
    strat,          \* the locals moves, possible_states, scores of a strategy
    res,            \* what the caller has been returned so far
    probe,          \* a caller's two results of make_move with the same move
    given,          \* a state a caller built to have it evaluated, or None
    hero            \* the player who picks moves by minimax, 0 when nobody does

vars == <<current_state, entry_state, pc, call, arg, old_state, frames, nodes,
          stack, tree, strat, res, probe, given, hero>>

\* fixed when the program starts
setup == <<given, hero>>

NoStrat == [moves |-> <<>>, possible_states |-> <<>>, scores |-> <<>>]
NoRes == [score_r |-> None, score_i |-> None, move_r |-> None, move_i |-> None,
          rough |-> None, move_rough |-> None]

\* Tree(value): children [] and score None.  attached and scored count the
\* assignments to tree.children and to tree.score made after construction,
\* up to MaxCount.
Tree(value) == [value |-> value, children |-> <<>>, score |-> None,
                attached |-> 0, scored |-> 0]

\* one assignment more
Bump(n) == IF n < MaxCount THEN n + 1 ELSE n

Init ==
    /\ \E p1_starts \in BOOLEAN, side_length \in BoardSizes :
           current_state = StonehengeState(p1_starts, side_length)
    /\ entry_state = current_state
    /\ pc = "idle"
    /\ call = "none"
    /\ arg = None
    /\ old_state = None
    /\ frames = <<>>
    /\ nodes = <<>>
    /\ stack = <<>>
    /\ tree = 0
    /\ strat = NoStrat
    /\ res = NoRes
    /\ probe = None
    /\ given = None
    /\ hero = 0

\* StonehengeGame.is_winner(player) with player 'p1' or 'p2': answered for
\* the state that is game.current_state at the time of the query.
game_is_winner(focus, player) ==
    LET current_player == IF player = "p1" THEN 1 ELSE 2
    IN  is_over(focus) /\ is_winner(focus, current_player)

\* The score of the terminal rule for state, the queries answered with focus
\* as game.current_state.
terminal_score_swapped(state, focus) ==
    LET current == IF state.p1_turn THEN "p1" ELSE "p2"
        other == IF current = "p2" THEN "p1" ELSE "p2"
    IN  IF game_is_winner(focus, current) /\ ~game_is_winner(focus, other) THEN -1
        ELSE IF game_is_winner(focus, other) /\ ~game_is_winner(focus, current) THEN 1
        ELSE 0

terminal_score(state, focus) ==
    LET current == IF state.p1_turn THEN "p1" ELSE "p2"
        other == IF current = "p2" THEN "p1" ELSE "p2"
    IN  IF game_is_winner(focus, current) /\ ~game_is_winner(focus, other) THEN 1
        ELSE IF game_is_winner(focus, other) /\ ~game_is_winner(focus, current) THEN -1
        ELSE 0

\* game.current_state = state
InstallNothing(state, focus) == focus

Install(state, focus) == state

\* game.current_state = old_state
RestoreNothing(saved, focus) == focus

Restore(saved, focus) == saved

----------------------------------------------------------------------------
(* A caller playing the game, and a caller applying one move twice. *)

Play(m) ==
    /\ pc = "idle"
    /\ current_state' = make_move(current_state, m)
    /\ entry_state' = current_state'
    /\ res' = NoRes
    /\ strat' = NoStrat
    /\ UNCHANGED <<pc, call, arg, old_state, frames, nodes, stack, tree, probe>>
    /\ UNCHANGED setup

\* the player to move in state, as 1 or 2
ToMove(state) == IF state.p1_turn THEN 1 ELSE 2

\* It is the turn of the player who picks moves by minimax, at a state the
\* strategies are called on.
HeroToChoose ==
    /\ hero = ToMove(current_state)
    /\ ~is_over(current_state)
    /\ Empties(current_state) <= MaxEmpty

\* A move a player picks freely.
PlayMove ==
    /\ pc = "idle"
    /\ ~HeroToChoose
    /\ \E i \in 1..Len(get_possible_moves(current_state)) :
           Play(get_possible_moves(current_state)[i])

\* The move a minimax strategy returned is played.
HeroPlay ==
    /\ pc = "idle"
    /\ HeroToChoose
    /\ \E m \in {res.move_r, res.move_i} : m # None /\ Play(Val(m))

MakeMoveTwice ==
    /\ pc = "idle"
    /\ hero = 0
    /\ \E i \in 1..Len(get_possible_moves(current_state)) :
        LET m == get_possible_moves(current_state)[i]
            c1 == make_move_call(current_state, m)
            c2 == make_move_call(c1.self, m)
        IN  /\ probe' = [on |-> current_state, move |-> m,
                         first |-> c1.new_state, second |-> c2.new_state]
            /\ current_state' = c2.self
    /\ pc' = "probed"
    /\ res' = NoRes
    /\ strat' = NoStrat
    /\ UNCHANGED <<entry_state, call, arg, old_state, frames, nodes, stack, tree>>
    /\ UNCHANGED setup

MakeMoveTwiceDone ==
    /\ pc = "probed"
    /\ pc' = "idle"
    /\ probe' = None
    /\ entry_state' = current_state
    /\ UNCHANGED <<current_state, call, arg, old_state, frames, nodes, stack,
                   tree, strat, res>>
    /\ UNCHANGED setup

----------------------------------------------------------------------------
(* What a finished top-level evaluation hands to the function that asked   *)
(* for it: a caller's direct call keeps the score; a strategy appends it   *)
(* to its list and either evaluates the next possible state or picks.      *)

\* the negated scores a strategy takes its maximum of
NegatedNot(call_, scores) == scores

Negated(call_, scores) ==
    IF call_ = "strat_r" THEN scores   \* scores = [-state_score_r(game, s) ...]
    ELSE [i \in 1..Len(scores) |-> -scores[i]]   \* scores_ = [-s for s in scores]

\* moves[scores.index(max(scores))]
PickLast(moves, scores) ==
    moves[CHOOSE i \in 1..Len(scores) :
              scores[i] = MaxSeq(scores) /\ \A j \in (i + 1)..Len(scores) : scores[j] # MaxSeq(scores)]

Pick(moves, scores) == moves[IndexOf(scores, MaxSeq(scores))]

\* The evaluation began by `call` has returned v.
Returned(v) ==
    IF call = "score_r" \/ call = "score_i"
    THEN /\ res' = IF call = "score_r" THEN [res EXCEPT !.score_r = Some(v)]
                   ELSE [res EXCEPT !.score_i = Some(v)]
         /\ pc' = "idle"
         /\ call' = "none"
         /\ arg' = None
         /\ nodes' = <<>>
         /\ UNCHANGED strat
    ELSE LET got == Append(strat.scores, IF call = "strat_r" THEN -v ELSE v)
             more == Len(got) < Len(strat.possible_states)
         IN  /\ strat' = [strat EXCEPT !.scores = got]
             /\ IF more
                THEN /\ pc' = IF call = "strat_r" THEN "r_call" ELSE "i_loop"
                     /\ arg' = strat.possible_states[Len(got) + 1]
                     /\ nodes' = IF call = "strat_r" THEN <<>>
                                 ELSE <<Tree(strat.possible_states[Len(got) + 1])>>
                     /\ UNCHANGED <<call, res>>
                ELSE /\ pc' = "idle"
                     /\ call' = "none"
                     /\ arg' = None
                     /\ nodes' = <<>>
                     /\ res' = IF call = "strat_r"
                               THEN [res EXCEPT !.move_r =
                                        Some(Pick(strat.moves, Negated(call, got)))]
                               ELSE [res EXCEPT !.move_i =
                                        Some(Pick(strat.moves, Negated(call, got)))]

\* the stack of a state_score_i that is about to run, or is not running
StackAfterReturn == IF pc' = "i_loop" THEN <<1>> ELSE <<>>

----------------------------------------------------------------------------
(* state_score_r *)

\* The state a caller has evaluated: the one it built if it built one, the
\* state of the game otherwise.
Target == IF given = None THEN current_state ELSE Val(given)

\* A caller's state_score_r(game, state).
ScoreR ==
    /\ pc = "idle"
    /\ hero = 0
    /\ Empties(Target) <= MaxEmpty
    /\ res.score_r = None
    /\ call' = "score_r"
    /\ pc' = "r_call"
    /\ arg' = Target
    /\ entry_state' = current_state
    /\ res' = [res EXCEPT !.move_r = None, !.move_i = None]
    /\ strat' = NoStrat
    /\ UNCHANGED <<current_state, old_state, frames, nodes, stack, tree, probe>>
    /\ UNCHANGED setup

\* An invocation state_score_r(game, arg) begins.  At a state that is over it
\* saves the focus and installs arg; otherwise it builds the list of
\* successor states and invokes itself on the first one.
R_Enter ==
    /\ pc = "r_call"
    /\ IF is_over(arg)
       THEN /\ old_state' = current_state
            /\ current_state' = Install(arg, current_state)
            /\ pc' = "r_installed"
            /\ UNCHANGED <<frames, arg>>
       ELSE LET states == Successors(arg)
            IN  IF states = <<>>
                THEN \* max([]) raises ValueError
                     /\ pc' = "r_error"
                     /\ UNCHANGED <<current_state, old_state, frames, arg>>
                ELSE /\ frames' = Append(frames,
                            [state |-> arg, states |-> states, scores |-> <<>>])
                     /\ arg' = states[1]
                     /\ UNCHANGED <<current_state, old_state, pc>>
    /\ UNCHANGED <<entry_state, call, nodes, stack, tree, strat, res, probe>>
    /\ UNCHANGED setup

\* The value v returns into the suspended invocations frs: each appends -v to
\* its list and, when the list is complete, returns its maximum in turn.
RECURSIVE Unwind(_, _)
Unwind(frs, v) ==
    IF frs = <<>> THEN [frames |-> <<>>, done |-> TRUE, value |-> v]
    ELSE LET top == Last(frs)
             rest == SubSeq(frs, 1, Len(frs) - 1)
             got == Append(top.scores, -v)
         IN  IF Len(got) = Len(top.states)
             THEN Unwind(rest, MaxSeq(got))
             ELSE [frames |-> Append(rest, [top EXCEPT !.scores = got]),
                   done |-> FALSE,
                   value |-> top.states[Len(got) + 1]]

\* At a state that is over: the two winner queries, the restore of the focus
\* and the return of the score.
R_Terminal ==
    /\ pc = "r_installed"
    /\ LET u == Unwind(frames, terminal_score(arg, current_state))
       IN  /\ frames' = u.frames
           /\ IF u.done
              THEN /\ Returned(u.value)
                   /\ stack' = StackAfterReturn
              ELSE /\ arg' = u.value
                   /\ pc' = "r_call"
                   /\ UNCHANGED <<call, strat, res, nodes, stack>>
    /\ current_state' = Restore(old_state, current_state)
    /\ old_state' = None
    /\ UNCHANGED <<entry_state, tree, probe>>
    /\ UNCHANGED setup

----------------------------------------------------------------------------
(* state_score_i *)

\* A caller's state_score_i(game, state), for a state of the game after its
\* state_score_r(game, state): initial = Tree(state_) and stack = [initial].
ScoreI ==
    /\ pc = "idle"
    /\ hero = 0
    /\ Empties(Target) <= MaxEmpty
    /\ given = None => res.score_r # None
    /\ res.score_i = None
    /\ call' = "score_i"
    /\ pc' = "i_loop"
    /\ arg' = Target
    /\ nodes' = <<Tree(Target)>>
    /\ stack' = <<1>>
    /\ entry_state' = current_state
    /\ res' = [res EXCEPT !.move_r = None, !.move_i = None]
    /\ strat' = NoStrat
    /\ UNCHANGED <<current_state, old_state, frames, tree, probe>>
    /\ UNCHANGED setup

\* max([-c.score for c in tree.children])
ChildrenMaxUnnegated(kids, nds) ==
    MaxSeq([i \in 1..Len(kids) |-> Val(nds[kids[i]].score)])

ChildrenMax(kids, nds) ==
    MaxSeq([i \in 1..Len(kids) |-> -Val(nds[kids[i]].score)])

Top == Last(stack)
\* (PoppedNot: tree = stack[-1], nothing removed)
PoppedNot == stack

Popped == SubSeq(stack, 1, Len(stack) - 1)

\* tree = stack.pop() is a Tree whose state is over: the focus is saved and
\* the state installed.
I_PopOver ==
    /\ pc = "i_loop"
    /\ stack # <<>>
    /\ is_over(nodes[Top].value)
    /\ tree' = Top
    /\ stack' = Popped
    /\ old_state' = current_state
    /\ current_state' = Install(nodes[Top].value, current_state)
    /\ pc' = "i_installed"
    /\ UNCHANGED <<entry_state, call, arg, frames, nodes, strat, res, probe>>
    /\ UNCHANGED setup

\* The two winner queries, the restore of the focus and tree.score.
I_Terminal ==
    /\ pc = "i_installed"
    /\ nodes' = [nodes EXCEPT ![tree].score =
                                  Some(terminal_score(nodes[tree].value, current_state)),
                              ![tree].scored = Bump(@)]
    /\ current_state' = Restore(old_state, current_state)
    /\ old_state' = None
    /\ pc' = "i_loop"
    /\ UNCHANGED <<entry_state, call, arg, frames, stack, tree, strat, res, probe>>
    /\ UNCHANGED setup

\* stack.append(tree), then stack.append(t) for t in trees
PushedUnder(popped, top, trees) == popped \o trees \o <<top>>

PushedNoParent(popped, top, trees) == popped \o trees

Pushed(popped, top, trees) == Append(popped, top) \o trees

\* tree = stack.pop() is a Tree whose state is not over and whose children
\* are []: the children are built and attached, and tree and then its
\* children are pushed.
I_Expand ==
    /\ pc = "i_loop"
    /\ stack # <<>>
    /\ ~is_over(nodes[Top].value)
    /\ nodes[Top].children = <<>>
    /\ LET states == Successors(nodes[Top].value)
           trees == [i \in 1..Len(states) |-> Len(nodes) + i]
       IN  /\ nodes' = [nodes EXCEPT ![Top].children = trees,
                                     ![Top].attached = Bump(@)]
                         \o [i \in 1..Len(states) |-> Tree(states[i])]
           /\ stack' = Pushed(Popped, Top, trees)
    /\ tree' = Top
    /\ UNCHANGED <<current_state, entry_state, pc, call, arg, old_state, frames,
                   strat, res, probe>>
    /\ UNCHANGED setup

\* tree = stack.pop() is a Tree whose state is not over and that has
\* children: tree.score = max([-c.score for c in tree.children]).
I_Resolve ==
    /\ pc = "i_loop"
    /\ stack # <<>>
    /\ ~is_over(nodes[Top].value)
    /\ nodes[Top].children # <<>>
    /\ LET kids == nodes[Top].children
       IN  IF \E i \in 1..Len(kids) : nodes[kids[i]].score = None
           THEN \* -None raises TypeError
                /\ pc' = "i_error"
                /\ UNCHANGED nodes
           ELSE /\ nodes' = [nodes EXCEPT ![Top].score = Some(ChildrenMax(kids, nodes)),
                                          ![Top].scored = Bump(@)]
                /\ UNCHANGED pc
    /\ tree' = Top
    /\ stack' = Popped
    /\ UNCHANGED <<current_state, entry_state, call, arg, old_state, frames,
                   strat, res, probe>>
    /\ UNCHANGED setup

\* stack == []: return initial.score.  A None returned is no score: the
\* caller cannot go on with it.
I_Return ==
    /\ pc = "i_loop"
    /\ stack = <<>>
    /\ IF nodes[1].score = None
       THEN /\ pc' = "i_none"
            /\ UNCHANGED <<call, arg, nodes, stack, strat, res>>
       ELSE /\ Returned(Val(nodes[1].score))
            /\ stack' = StackAfterReturn
    /\ tree' = 0
    /\ UNCHANGED <<current_state, entry_state, old_state, frames, probe>>
    /\ UNCHANGED setup

----------------------------------------------------------------------------
(* The strategies *)

\* recursive_minimax_strategy(game): moves, possible_states, and the first
\* state_score_r.
StratR ==
    /\ pc = "idle"
    /\ hero # 0 => HeroToChoose /\ res.move_i = None
    /\ Empties(current_state) <= MaxEmpty
    /\ get_possible_moves(current_state) # <<>>
    /\ res.move_r = None
    /\ call' = "strat_r"
    /\ strat' = [moves |-> get_possible_moves(current_state),
                 possible_states |-> Successors(current_state),
                 scores |-> <<>>]
    /\ arg' = Successors(current_state)[1]
    /\ pc' = "r_call"
    /\ entry_state' = current_state
    /\ res' = [res EXCEPT !.score_r = None, !.score_i = None]
    /\ UNCHANGED <<current_state, old_state, frames, nodes, stack, tree, probe>>
    /\ UNCHANGED setup

\* iterative_minimax_strategy(game): moves, possible_states, and the first
\* state_score_i.
StratI ==
    /\ pc = "idle"
    /\ IF hero = 0 THEN res.move_r # None ELSE HeroToChoose /\ res.move_r = None
    /\ Empties(current_state) <= MaxEmpty
    /\ get_possible_moves(current_state) # <<>>
    /\ res.move_i = None
    /\ call' = "strat_i"
    /\ strat' = [moves |-> get_possible_moves(current_state),
                 possible_states |-> Successors(current_state),
                 scores |-> <<>>]
    /\ arg' = Successors(current_state)[1]
    /\ nodes' = <<Tree(Successors(current_state)[1])>>
    /\ stack' = <<1>>
    /\ pc' = "i_loop"
    /\ entry_state' = current_state
    /\ res' = [res EXCEPT !.score_r = None, !.score_i = None]
    /\ UNCHANGED <<current_state, old_state, frames, tree, probe>>
    /\ UNCHANGED setup

----------------------------------------------------------------------------
(* rough_outcome and rough_outcome_strategy.  A number rough_outcome       *)
(* returns is kept as a fraction, numerator over a positive denominator,   *)
(* so that (num_cur - num_opp) / (len(lines) / 2) is exact.                *)

Frac(n, d) == [num |-> n, den |-> d]
Neg(a) == [a EXCEPT !.num = -a.num]
Gt(a, b) == a.num * b.den > b.num * a.den
Eq(a, b) == a.num * b.den = b.num * a.den

\* GameState.WIN, LOSE and DRAW
WIN == 1
LOSE == -1
DRAW == 0

\* sum([1 for x in lines if x == str(player)])
NumLines(state, player) ==
    Cardinality({i \in 1..Len(AllMarks(state)) : AllMarks(state)[i] = PlayerStr(player)})

\* Python's any([...]) and all([...]) of a list of booleans
AnyOf(bs) == \E i \in 1..Len(bs) : bs[i]
AllOfSome(bs) == bs # <<>> /\ \A i \in 1..Len(bs) : bs[i]

AllOf(bs) == \A i \in 1..Len(bs) : bs[i]

\* the value of the last three returns of rough_outcome
\* (EstimateUnscaled: the difference, not divided by len(lines) / 2)
EstimateUnscaled(num_cur, num_opp, len_lines) ==
    IF num_cur = num_opp THEN Frac(DRAW, 1)
    ELSE IF num_cur > num_opp THEN Frac(num_cur - num_opp, 1)
    ELSE Neg(Frac(num_opp - num_cur, 1))

Estimate(num_cur, num_opp, len_lines) ==
    IF num_cur = num_opp THEN Frac(DRAW, 1)
    ELSE IF num_cur > num_opp THEN Frac(2 * (num_cur - num_opp), len_lines)
    ELSE Neg(Frac(2 * (num_opp - num_cur), len_lines))

\* One call state.rough_outcome(): the return statement that is reached and
\* the value returned.
\* (rough_outcome_one_ply: without the look at the substates.)
rough_outcome_one_ply(state) ==
    LET current == IF state.p1_turn THEN 1 ELSE 2
        opponent == IF current = 1 THEN 2 ELSE 1
        states == Successors(state)
    IN  IF AnyOf([i \in 1..Len(states) |-> is_winner(states[i], current)])
        THEN [branch |-> "win", value |-> Frac(WIN, 1)]
        ELSE [branch |-> "estimate",
              value |-> Estimate(NumLines(state, current), NumLines(state, opponent),
                                 Len(AllMarks(state)))]

rough_outcome_call(state) ==
    LET current == IF state.p1_turn THEN 1 ELSE 2
        opponent == IF current = 1 THEN 2 ELSE 1
        states == Successors(state)
        substates == [i \in 1..Len(states) |-> Successors(states[i])]
    IN  IF AnyOf([i \in 1..Len(states) |-> is_winner(states[i], current)])
        THEN [branch |-> "win", value |-> Frac(WIN, 1)]
        ELSE IF AllOf([i \in 1..Len(substates) |->
                        AnyOf([j \in 1..Len(substates[i]) |->
                                is_winner(substates[i][j], opponent)])])
        THEN [branch |-> "lose", value |-> Frac(LOSE, 1)]
        ELSE [branch |-> "estimate",
              value |-> Estimate(NumLines(state, current), NumLines(state, opponent),
                                 Len(AllMarks(state)))]

rough_outcome(state) == rough_outcome_call(state).value

\* if guessed_score > best_outcome
BetterOrEqual(guessed_score, best_outcome) == ~Gt(best_outcome, guessed_score)

Better(guessed_score, best_outcome) == Gt(guessed_score, best_outcome)

\* the loop of rough_outcome_strategy over the moves still to try
RECURSIVE RoughLoop(_, _, _, _)
RoughLoop(state, moves, best_move, best_outcome) ==
    IF moves = <<>> THEN best_move
    ELSE LET move == Head(moves)
             new_state == make_move(state, move)
             guessed_score == Neg(rough_outcome(new_state))
         IN  IF Better(guessed_score, best_outcome)
             THEN RoughLoop(state, Tail(moves), Some(move), guessed_score)
             ELSE RoughLoop(state, Tail(moves), best_move, best_outcome)

\* best_move = None, best_outcome = -2, the loop, return best_move
rough_outcome_strategy(state) ==
    RoughLoop(state, get_possible_moves(state), None, Frac(-2, 1))

\* A caller's game.current_state.rough_outcome().
RoughOutcome ==
    /\ pc = "idle"
    /\ hero = 0
    /\ pc' = "roughed"
    /\ res' = [res EXCEPT !.rough = Some(rough_outcome_call(current_state))]
    /\ UNCHANGED <<current_state, entry_state, call, arg, old_state, frames, nodes,
                   stack, tree, strat, probe>>
    /\ UNCHANGED setup

\* A caller's rough_outcome_strategy(game).
StratRough ==
    /\ pc = "idle"
    /\ hero = 0
    /\ pc' = "rough_picked"
    /\ res' = [res EXCEPT !.move_rough = rough_outcome_strategy(current_state)]
    /\ UNCHANGED <<current_state, entry_state, call, arg, old_state, frames, nodes,
                   stack, tree, strat, probe>>
    /\ UNCHANGED setup

\* The caller is done with what the heuristic returned.
RoughDone ==
    /\ pc \in {"roughed", "rough_picked"}
    /\ pc' = "idle"
    /\ res' = [res EXCEPT !.rough = None, !.move_rough = None]
    /\ UNCHANGED <<current_state, entry_state, call, arg, old_state, frames, nodes,
                   stack, tree, strat, probe>>
    /\ UNCHANGED setup

----------------------------------------------------------------------------
Next ==
    \/ PlayMove
    \/ MakeMoveTwice
    \/ MakeMoveTwiceDone
    \/ ScoreR
    \/ R_Enter
    \/ R_Terminal
    \/ ScoreI
    \/ I_PopOver
    \/ I_Terminal
    \/ I_Expand
    \/ I_Resolve
    \/ I_Return
    \/ StratR
    \/ StratI
    \/ RoughOutcome
    \/ StratRough
    \/ RoughDone

Spec == Init /\ [][Next]_vars

----------------------------------------------------------------------------
(* A caller that builds a state of the smallest board by setting its       *)
(* markers, so that the state is over, and has it evaluated while the game *)
(* is at its first state.                                                  *)

Markers == {"@", "1", "2"}

InitContrived ==
    /\ \E p1_starts \in BOOLEAN :
           current_state = StonehengeState(p1_starts, 1)
    /\ \E turn \in BOOLEAN, dl \in [1..2 -> Markers], dr \in [1..2 -> Markers],
          row \in [1..2 -> Markers] :
           LET s == [StonehengeState(turn, 1) EXCEPT
                        !.mark_dl = dl, !.mark_dr = dr, !.mark_row = row]
           IN  /\ is_over(s)
               /\ given = Some(s)
    /\ entry_state = current_state
    /\ pc = "idle"
    /\ call = "none"
    /\ arg = None
    /\ old_state = None
    /\ frames = <<>>
    /\ nodes = <<>>
    /\ stack = <<>>
    /\ tree = 0
    /\ strat = NoStrat
    /\ res = NoRes
    /\ probe = None
    /\ hero = 0

NextContrived ==
    \/ ScoreR
    \/ R_Enter
    \/ R_Terminal
    \/ ScoreI
    \/ I_PopOver
    \/ I_Terminal
    \/ I_Return

SpecContrived == InitContrived /\ [][NextContrived]_vars

----------------------------------------------------------------------------
(* A game, started by player 1, in which one player, the hero, picks every *)
(* move by a minimax strategy once the state is one the strategies are     *)
(* called on; the other player moves freely.  The game loop keeps running  *)
(* until the game is over.                                                 *)

InitHero ==
    /\ \E side_length \in BoardSizes :
           current_state = StonehengeState(TRUE, side_length)
    /\ hero \in {1, 2}
    /\ entry_state = current_state
    /\ pc = "idle"
    /\ call = "none"
    /\ arg = None
    /\ old_state = None
    /\ frames = <<>>
    /\ nodes = <<>>
    /\ stack = <<>>
    /\ tree = 0
    /\ strat = NoStrat
    /\ res = NoRes
    /\ probe = None
    /\ given = None

NextHero ==
    \/ PlayMove
    \/ HeroPlay
    \/ StratR
    \/ StratI
    \/ R_Enter
    \/ R_Terminal
    \/ I_PopOver
    \/ I_Terminal
    \/ I_Expand
    \/ I_Resolve
    \/ I_Return

SpecHero == InitHero /\ [][NextHero]_vars /\ WF_vars(NextHero)

----------------------------------------------------------------------------
(* A caller that builds a state of the smallest board with at most one     *)
(* unclaimed cell by setting its cells and the markers of its diagonal     *)
(* ley-lines, and has state_score_i evaluate it.  With every cell claimed  *)
(* and nobody given half of the ley-lines the state has no possible move   *)
(* and is not over.                                                        *)

InitStuck ==
    /\ \E p1_starts \in BOOLEAN :
           current_state = StonehengeState(p1_starts, 1)
    /\ \E turn \in BOOLEAN, cells \in [0..(num_cells(1) - 1) -> {0, 1, 2}],
          dl \in [1..2 -> Markers], dr \in [1..2 -> Markers] :
           LET s == [StonehengeState(turn, 1) EXCEPT
                        !.cell_state = cells, !.mark_dl = dl, !.mark_dr = dr]
           IN  /\ Empties(s) <= 1
               /\ given = Some(s)
    /\ entry_state = current_state
    /\ pc = "idle"
    /\ call = "none"
    /\ arg = None
    /\ old_state = None
    /\ frames = <<>>
    /\ nodes = <<>>
    /\ stack = <<>>
    /\ tree = 0
    /\ strat = NoStrat
    /\ res = NoRes
    /\ probe = None
    /\ hero = 0

NextStuck ==
    \/ ScoreI
    \/ I_PopOver
    \/ I_Terminal
    \/ I_Expand
    \/ I_Resolve
    \/ I_Return

SpecStuck == InitStuck /\ [][NextStuck]_vars

----------------------------------------------------------------------------
(* A game played to its end with both evaluators called along the way, by  *)
(* a program that keeps running: the game loop makes a next move while     *)
(* there is one, and a call that has begun keeps executing.                *)

NextScore ==
    \/ PlayMove
    \/ ScoreR
    \/ R_Enter
    \/ R_Terminal
    \/ ScoreI
    \/ I_PopOver
    \/ I_Terminal
    \/ I_Expand
    \/ I_Resolve
    \/ I_Return

SpecScore == Init /\ [][NextScore]_vars /\ WF_vars(NextScore)

----------------------------------------------------------------------------
(* Games played move by move on the boards of every size, the larger board *)
(* included, by player 1 starting.                                         *)

InitBoards ==
    /\ \E side_length \in BoardSizes \cup LargeSizes :
           current_state = StonehengeState(TRUE, side_length)
    /\ entry_state = current_state
    /\ pc = "idle"
    /\ call = "none"
    /\ arg = None
    /\ old_state = None
    /\ frames = <<>>
    /\ nodes = <<>>
    /\ stack = <<>>
    /\ tree = 0
    /\ strat = NoStrat
    /\ res = NoRes
    /\ probe = None
    /\ given = None
    /\ hero = 0

NextBoards == PlayMove

SpecBoards == InitBoards /\ [][NextBoards]_vars

----------------------------------------------------------------------------
(* What the game decides, without the evaluators: who wins with best play. *)

Other(player) == IF player = 1 THEN 2 ELSE 1

\* WinsToMove: the player to move has a strategy that wins against every
\* reply.  LosesToMove: the opponent has one against every move of the player
\* to move.
RECURSIVE WinsToMove(_), LosesToMove(_)
WinsToMove(s) ==
    IF is_over(s)
    THEN is_winner(s, ToMove(s)) /\ ~is_winner(s, Other(ToMove(s)))
    ELSE \E i \in 1..Len(Successors(s)) : LosesToMove(Successors(s)[i])

LosesToMove(s) ==
    IF is_over(s)
    THEN is_winner(s, Other(ToMove(s))) /\ ~is_winner(s, ToMove(s))
    ELSE \A i \in 1..Len(Successors(s)) : WinsToMove(Successors(s)[i])

GameValue(s) == IF WinsToMove(s) THEN 1 ELSE IF LosesToMove(s) THEN -1 ELSE 0

\* some move wins at once
WinsAtOnce(s) ==
    \E i \in 1..Len(Successors(s)) :
        LET t == Successors(s)[i]
        IN  is_over(t) /\ is_winner(t, ToMove(s)) /\ ~is_winner(t, ToMove(t))

\* s is not over and every move leads to a state that is not over and in
\* which the opponent has a move that wins at once
LosesInTwo(s) ==
    /\ ~is_over(s)
    /\ \A i \in 1..Len(Successors(s)) :
           ~is_over(Successors(s)[i]) /\ WinsAtOnce(Successors(s)[i])

\* the scores a caller's direct calls have returned
Returns == {res.score_r, res.score_i} \ {None}

----------------------------------------------------------------------------
(* The claims. *)

\* the state the scores a caller has been returned are of, and the state the
\* strategies were called at
Scored == IF given = None THEN entry_state ELSE Val(given)

\* C1: whenever a caller has had the same state scored by state_score_r and
\* by state_score_i, the two scores are equal.
C1_SameScore ==
    (res.score_r # None /\ res.score_i # None) => res.score_r = res.score_i

\* both evaluators have returned for a state that is not over and has as
\* many unclaimed cells as the evaluators are called with
C1_Witness ==
    /\ pc = "idle"
    /\ res.score_r # None
    /\ res.score_i # None
    /\ ~is_over(current_state)
    /\ Empties(current_state) = MaxEmpty

\* C2: a returned score is 1 exactly when the player to move can force a
\* win, -1 exactly when the opponent can, 0 otherwise; a state with a move
\* that wins at once scores 1, and a state that is not over and whose every
\* move lets the opponent win at once scores -1.
C2_ScoreIsGameValue ==
    \A o \in (IF pc = "idle" THEN Returns ELSE {}) :
        /\ Val(o) = 1 <=> WinsToMove(Scored)
        /\ Val(o) = -1 <=> LosesToMove(Scored)
        /\ Val(o) = 0 <=> (~WinsToMove(Scored) /\ ~LosesToMove(Scored))
        /\ WinsAtOnce(Scored) => Val(o) = 1
        /\ LosesInTwo(Scored) => Val(o) = -1

\* both evaluators have scored a two-ply forced loss
C2_Witness ==
    /\ pc = "idle"
    /\ res.score_r = Some(-1)
    /\ res.score_i = Some(-1)
    /\ LosesInTwo(current_state)

\* C3: for a state that is over, a returned score is 1 when only the player
\* to move in it is a winner, -1 when only the other player is, and 0 when
\* both or neither are.
C3_TerminalScore ==
    \A o \in Returns :
        is_over(Scored) =>
            LET cur == is_winner(Scored, ToMove(Scored))
                oth == is_winner(Scored, Other(ToMove(Scored)))
            IN  /\ (cur /\ ~oth) => Val(o) = 1
                /\ (oth /\ ~cur) => Val(o) = -1
                /\ (cur <=> oth) => Val(o) = 0

\* both evaluators have scored a state in which both players are winners,
\* built while the game is at a state that is not over
C3_Witness ==
    /\ given # None
    /\ res.score_r = Some(0)
    /\ res.score_i = Some(0)
    /\ is_winner(Target, 1)
    /\ is_winner(Target, 2)
    /\ ~is_over(current_state)

\* C4: game.current_state is the state it was when the running call began,
\* or the last call began once it has returned, except between the install
\* and the restore at a state that is over.
C4_FocusRestored ==
    pc \notin {"r_installed", "i_installed"} => current_state = entry_state

\* both strategies have returned at a state with as many unclaimed cells as
\* the strategies are called with
C4_Witness ==
    /\ pc = "idle"
    /\ res.move_r # None
    /\ res.move_i # None
    /\ Empties(current_state) = MaxEmpty

\* the negated score of the successor by the i-th possible move
NegatedValue(i) == -GameValue(Successors(entry_state)[i])

\* the moves the strategies have returned
Chosen == {res.move_r, res.move_i} \ {None}

\* C5: a move a minimax strategy returns is a possible move, no possible
\* move has a larger negated successor score, and it is the first of the
\* possible moves with that score; so the two strategies return the same move.
C5_FirstBestMove ==
    /\ \A o \in (IF pc = "idle" THEN Chosen ELSE {}) :
          \E i \in 1..Len(get_possible_moves(entry_state)) :
              /\ get_possible_moves(entry_state)[i] = Val(o)
              /\ \A j \in 1..Len(get_possible_moves(entry_state)) :
                     NegatedValue(j) <= NegatedValue(i)
              /\ \A j \in 1..(i - 1) : NegatedValue(j) < NegatedValue(i)
    /\ Cardinality(Chosen) <= 1

\* both strategies have returned a move that is not the first possible move,
\* at a state where a later move has the same negated score
C5_Witness ==
    /\ pc = "idle"
    /\ res.move_r # None
    /\ res.move_i # None
    /\ Val(res.move_r) # get_possible_moves(current_state)[1]
    /\ \E j \in 1..Len(get_possible_moves(current_state)) :
          /\ get_possible_moves(current_state)[j] > Val(res.move_r)
          /\ NegatedValue(j) = NegatedValue(IndexOf(get_possible_moves(current_state),
                                                    Val(res.move_r)))

\* the hero wins with best play from the state of the game, at a state the
\* strategies are called on
HeroForced ==
    /\ hero # 0
    /\ pc = "idle"
    /\ Empties(current_state) <= MaxEmpty
    /\ IF ToMove(current_state) = hero
       THEN WinsToMove(current_state)
       ELSE LosesToMove(current_state)

HeroWon ==
    /\ is_over(current_state)
    /\ is_winner(current_state, hero)
    /\ ~is_winner(current_state, Other(hero))

\* C6: when the player who picks every own move by a minimax strategy can
\* force a win, the game reaches a state that is over and in which that
\* player is the winner, whatever the opponent plays.
C6_ForcedWinIsWon == HeroForced ~> HeroWon

\* a strategy has returned the hero a move, at a state that is not over,
\* from which the hero can force a win but has no move that wins at once
C6_Witness ==
    /\ HeroForced
    /\ HeroToChoose
    /\ Chosen # {}
    /\ ~WinsAtOnce(current_state)

\* C7: a state has no possible move exactly when it is over; a board with
\* every cell claimed has a winner, and no evaluator meets a state that is
\* not over and has no possible move.
C7_NoMovesIffOver ==
    /\ (get_possible_moves(current_state) = <<>>) <=> is_over(current_state)
    /\ Empties(current_state) = 0 => is_over(current_state)
    /\ pc # "r_error"

\* the game is at a state with every cell claimed
C7_Witness == pc = "idle" /\ Empties(current_state) = 0

MoveStep == pc = "idle" /\ pc' = "idle" /\ current_state' # current_state

\* C9: a marker that is "1" or "2" has that value after every move.
C9_CapturedForGood ==
    [][MoveStep =>
          \A i \in 1..Len(AllMarks(current_state)) :
              AllMarks(current_state)[i] # "@" =>
                  AllMarks(current_state')[i] = AllMarks(current_state)[i]]_vars

AllLines(state) ==
    LET ley == Ley[board_size_of(state)] IN ley[1] \o ley[2] \o ley[3]

\* a ley-line is marked "2" although player 1 holds half of its cells
C9_Witness ==
    /\ pc = "idle"
    /\ \E i \in 1..Len(AllMarks(current_state)) :
          /\ AllMarks(current_state)[i] = "2"
          /\ AtLeastHalf(Count(AllLines(current_state)[i], current_state.cell_state, 1),
                         Len(AllLines(current_state)[i]))

\* C10: make_move with a possible move returns a state in which the other
\* player is to move, the cell of the move is the mover's, every other cell
\* is as it was, and the move is no longer possible.
C10_MoveEffect ==
    pc = "probed" =>
        /\ probe.first.p1_turn = ~probe.on.p1_turn
        /\ probe.first.cell_state[probe.move] = (IF probe.on.p1_turn THEN 1 ELSE 2)
        /\ \A c \in DOMAIN probe.on.cell_state :
               c # probe.move => probe.first.cell_state[c] = probe.on.cell_state[c]
        /\ \A i \in 1..Len(get_possible_moves(probe.first)) :
               get_possible_moves(probe.first)[i] # probe.move

\* make_move was called for player 2 and the state it returned is not over
C10_Witness ==
    /\ pc = "probed"
    /\ ~probe.on.p1_turn
    /\ get_possible_moves(probe.first) # <<>>

\* the negated rough_outcome of the successor by the i-th possible move
RoughValue(i) ==
    Neg(rough_outcome(make_move(current_state, get_possible_moves(current_state)[i])))

\* C11: at a state that is not over rough_outcome_strategy returns a possible
\* move, never None: the first of the possible moves whose successor has the
\* largest negated rough_outcome; the first candidate is larger than the
\* initial best outcome -2.
C11_RoughPick ==
    (pc = "rough_picked" /\ ~is_over(current_state)) =>
        /\ res.move_rough # None
        /\ \E i \in 1..Len(get_possible_moves(current_state)) :
               /\ get_possible_moves(current_state)[i] = Val(res.move_rough)
               /\ \A j \in 1..Len(get_possible_moves(current_state)) :
                      ~Gt(RoughValue(j), RoughValue(i))
               /\ \A j \in 1..(i - 1) : Gt(RoughValue(i), RoughValue(j))
        /\ Gt(RoughValue(1), Frac(-2, 1))

\* rough_outcome_strategy has returned a move that is not the first possible
\* move, at a state where a later move has the same negated rough_outcome
C11_Witness ==
    /\ pc = "rough_picked"
    /\ res.move_rough # None
    /\ Val(res.move_rough) # get_possible_moves(current_state)[1]
    /\ \E j \in 1..Len(get_possible_moves(current_state)) :
          /\ get_possible_moves(current_state)[j] > Val(res.move_rough)
          /\ Eq(RoughValue(j),
                RoughValue(IndexOf(get_possible_moves(current_state),
                                   Val(res.move_rough))))

\* the lines the player to move holds less the lines the opponent holds
LineLead(state) == NumLines(state, ToMove(state)) - NumLines(state, Other(ToMove(state)))

\* C12: the value rough_outcome returns is at least LOSE = -1 and at most
\* WIN = 1; when it is the line-difference estimate, twice the absolute
\* difference of the lines the two players hold is at most the number of
\* ley-lines.
C12_RoughInRange ==
    pc = "roughed" =>
        LET r == Val(res.rough)
        IN  /\ ~Gt(r.value, Frac(WIN, 1))
            /\ ~Gt(Frac(LOSE, 1), r.value)
            /\ r.branch = "estimate" =>
                   /\ 2 * LineLead(current_state) <= Len(AllMarks(current_state))
                   /\ -2 * LineLead(current_state) <= Len(AllMarks(current_state))
                   /\ Eq(r.value, Frac(2 * LineLead(current_state),
                                       Len(AllMarks(current_state))))

\* rough_outcome has returned the estimate at a state where one player holds
\* at least two ley-lines more than the other
C12_Witness ==
    /\ pc = "roughed"
    /\ Val(res.rough).branch = "estimate"
    /\ (LineLead(current_state) >= 2 \/ LineLead(current_state) <= -2)

\* some move leads to a state in which the player to move in s is a winner
SomeMoveWins(s) ==
    \E i \in 1..Len(Successors(s)) : is_winner(Successors(s)[i], ToMove(s))

\* every move leads to a state from which some move of the opponent leads to
\* a state in which the opponent is a winner
EveryMoveLoses(s) ==
    \A i \in 1..Len(Successors(s)) :
        \E j \in 1..Len(Successors(Successors(s)[i])) :
            is_winner(Successors(Successors(s)[i])[j], Other(ToMove(s)))

\* C13: at a state that is not over rough_outcome returns 1 when some move
\* leads to a state in which the player to move has won, and -1 when no move
\* does and every move leads to a state from which the opponent has a move
\* that wins at once.
C13_RoughWinLose ==
    (pc = "roughed" /\ ~is_over(current_state)) =>
        LET r == Val(res.rough)
        IN  /\ SomeMoveWins(current_state) => Eq(r.value, Frac(1, 1))
            /\ WinsAtOnce(current_state) => Eq(r.value, Frac(1, 1))
            /\ (~SomeMoveWins(current_state) /\ EveryMoveLoses(current_state))
                   => Eq(r.value, Frac(-1, 1))
            /\ (~WinsAtOnce(current_state) /\ LosesInTwo(current_state))
                   => Eq(r.value, Frac(-1, 1))

\* rough_outcome has returned -1 at a state that is not over, in which the
\* player to move holds as many ley-lines as the opponent
C13_Witness ==
    /\ pc = "roughed"
    /\ ~is_over(current_state)
    /\ Val(res.rough).branch = "lose"
    /\ LosesInTwo(current_state)
    /\ LineLead(current_state) = 0

\* C14: at a state that is over rough_outcome returns the score of the state
\* for its player to move: the score of the terminal rule, which is the
\* score state_score_r and state_score_i have returned for the state.
C14_RoughAtOver ==
    (pc = "roughed" /\ is_over(current_state)) =>
        LET r == Val(res.rough)
        IN  /\ Eq(r.value, Frac(terminal_score(current_state, current_state), 1))
            /\ Eq(r.value, Frac(GameValue(current_state), 1))
            /\ \A o \in Returns : Eq(r.value, Frac(Val(o), 1))

\* rough_outcome has returned at a state that is over, has unclaimed cells
\* and has been scored by both evaluators
C14_Witness ==
    /\ pc = "roughed"
    /\ is_over(current_state)
    /\ Empties(current_state) > 0
    /\ res.score_r # None
    /\ res.score_i # None

\* C15: in state_score_i, whenever the Tree on top of the stack, the next to
\* be popped, has children, every child has its score; the maximum of the
\* negated child scores is never taken over a child without a score.
C15_ChildrenScored ==
    /\ (pc = "i_loop" /\ stack # <<>> /\ nodes[Top].children # <<>>) =>
           \A i \in 1..Len(nodes[Top].children) :
               nodes[nodes[Top].children[i]].score # None
    /\ pc # "i_error"

\* the Tree about to be popped has several children, all with a score, one
\* of which has children of its own
C15_Witness ==
    /\ pc = "i_loop"
    /\ stack # <<>>
    /\ Len(nodes[Top].children) >= 2
    /\ \A i \in 1..Len(nodes[Top].children) :
           nodes[nodes[Top].children[i]].score # None
    /\ \E i \in 1..Len(nodes[Top].children) :
           nodes[nodes[Top].children[i]].children # <<>>

\* the game is over, and both evaluators have returned a score for its last
\* state when that state is one they are called on
PlayedOut ==
    /\ pc = "idle"
    /\ call = "none"
    /\ is_over(current_state)
    /\ Empties(current_state) <= MaxEmpty =>
           (res.score_r # None /\ res.score_i # None)

\* C16: every move leaves one unclaimed cell fewer and a state that is not
\* over has a move, so that play reaches a state that is over after at most
\* as many moves as there are unclaimed cells; every call of state_score_r
\* and state_score_i made on the way returns, with a score, and the stack of
\* state_score_i is empty only with the score of the root set.
C16_Terminates ==
    /\ [][MoveStep => Empties(current_state') = Empties(current_state) - 1]_vars
    /\ [](~is_over(current_state) => get_possible_moves(current_state) # <<>>)
    /\ []((pc = "i_loop" /\ stack = <<>>) => nodes[1].score \in {Some(-1), Some(0), Some(1)})
    /\ [](Returns \subseteq {Some(-1), Some(0), Some(1)})
    /\ <>PlayedOut

\* state_score_i is about to return the score of a state with as many
\* unclaimed cells as the evaluators are called with, state_score_r having
\* returned
C16_Witness ==
    /\ call = "score_i"
    /\ pc = "i_loop"
    /\ stack = <<>>
    /\ nodes[1].score # None
    /\ res.score_r # None
    /\ ~is_over(nodes[1].value)
    /\ Empties(nodes[1].value) = MaxEmpty

\* s has no possible move and is not over
Stuck(s) == get_possible_moves(s) = <<>> /\ ~is_over(s)

\* C17: state_score_i called on a state that has no possible move and is
\* not over never returns: the stack always holds the Tree of the state,
\* which has no children and no score, and the step that pops it, gives it
\* an empty list of children and pushes it back can always be taken again.
C17_StuckForever ==
    /\ []((call = "score_i" /\ Stuck(arg)) =>
             /\ pc = "i_loop"
             /\ stack = <<1>>
             /\ Len(nodes) = 1
             /\ nodes[1].children = <<>>
             /\ nodes[1].score = None
             /\ ENABLED I_Expand)
    /\ [][(call = "score_i" /\ Stuck(arg)) => (call' = "score_i" /\ arg' = arg)]_vars
    /\ [](Stuck(Target) => res.score_i = None)

\* the Tree of a state with no possible move that is not over has been given
\* an empty list of children as often as is counted
C17_Witness ==
    /\ call = "score_i"
    /\ Stuck(arg)
    /\ nodes[1].attached = MaxCount
    /\ nodes[1].children = <<>>

\* state_score_i has emptied its stack and is about to return
AboutToReturn == pc = "i_loop" /\ stack = <<>>

\* C18, as stated: when state_score_i returns, every Tree it created has had
\* its children attached exactly once and its score set exactly once.
C18_AttachedAndScored ==
    AboutToReturn =>
        \A n \in 1..Len(nodes) : nodes[n].attached = 1 /\ nodes[n].scored = 1

\* C18, amended: no Tree has its score set or its children attached more
\* than once; when state_score_i returns, every Tree it created has had its
\* score set exactly once, and its children attached exactly once if its
\* state is not over and never if its state is over.
C18_ScoredOnce ==
    /\ \A n \in 1..Len(nodes) :
           /\ nodes[n].scored <= 1
           /\ nodes[n].attached <= 1
           /\ nodes[n].scored = 1 <=> nodes[n].score # None
           /\ nodes[n].attached = 1 <=> nodes[n].children # <<>>
    /\ AboutToReturn =>
           \A n \in 1..Len(nodes) :
               /\ nodes[n].scored = 1
               /\ nodes[n].attached = (IF is_over(nodes[n].value) THEN 0 ELSE 1)

\* state_score_i is about to return from a state that is not over: the Tree
\* of a state that is over has a score and was never given children, and a
\* Tree other than the root was given children
C18_Witness ==
    /\ AboutToReturn
    /\ \E n \in 1..Len(nodes) :
           /\ is_over(nodes[n].value)
           /\ nodes[n].scored = 1
           /\ nodes[n].attached = 0
    /\ \E n \in 2..Len(nodes) : nodes[n].attached = 1

\* player holds at least half of the cells of the i-th ley-line of state
HoldsHalf(state, i, player) ==
    AtLeastHalf(Count(AllLines(state)[i], state.cell_state, player),
                Len(AllLines(state)[i]))

\* C19: a ley-line is marked "@" exactly when neither player has claimed at
\* least half of its cells, and a ley-line marked "1" or "2" has at least
\* half of its cells claimed by that player.
C19_MarkersMatchCells ==
    \A i \in 1..Len(AllMarks(current_state)) :
        /\ AllMarks(current_state)[i] = "@" <=>
               (~HoldsHalf(current_state, i, 1) /\ ~HoldsHalf(current_state, i, 2))
        /\ AllMarks(current_state)[i] = "1" => HoldsHalf(current_state, i, 1)
        /\ AllMarks(current_state)[i] = "2" => HoldsHalf(current_state, i, 2)

\* on the larger board: a ley-line with a claimed cell is still "@", and a
\* ley-line of which each player holds half is marked "1"
C19_Witness ==
    /\ pc = "idle"
    /\ board_size_of(current_state) = 3
    /\ \E i \in 1..Len(AllMarks(current_state)) :
          /\ AllMarks(current_state)[i] = "@"
          /\ Count(AllLines(current_state)[i], current_state.cell_state, 0)
                 < Len(AllLines(current_state)[i])
    /\ \E i \in 1..Len(AllMarks(current_state)) :
          /\ AllMarks(current_state)[i] = "1"
          /\ HoldsHalf(current_state, i, 2)

\* C20: never are both players winners; a move changes markers only to the
\* marker of the player who made it; and a state in which a player holds at
\* least half of the ley-lines has no possible move.
C20_OneWinner ==
    /\ [](~(is_winner(current_state, 1) /\ is_winner(current_state, 2)))
    /\ [](is_over(current_state) => get_possible_moves(current_state) = <<>>)
    /\ [][MoveStep =>
            \A i \in 1..Len(AllMarks(current_state)) :
                AllMarks(current_state')[i] # AllMarks(current_state)[i] =>
                    AllMarks(current_state')[i] = PlayerStr(ToMove(current_state))]_vars

\* on the larger board, with its even number of ley-lines: a player has won
\* with exactly half of the ley-lines while the other holds all but one of
\* the rest
C20_Witness ==
    /\ board_size_of(current_state) = 3
    /\ is_over(current_state)
    /\ \E w \in {1, 2} :
          /\ 2 * NumLines(current_state, w) = Len(AllMarks(current_state))
          /\ 2 * NumLines(current_state, Other(w)) = Len(AllMarks(current_state)) - 2

\* the scores 1 and -1, as returned or kept on a Tree
WinOrLoss == {Some(1), Some(-1)}

\* C21: in a state that is over the winner is the player who made the last
\* move and not the player to move, so the score of the terminal rule is -1;
\* every score an evaluator computes or returns is 1 or -1, never 0.
C21_NoDraws ==
    /\ is_over(current_state) =>
           /\ is_winner(current_state, Other(ToMove(current_state)))
           /\ ~is_winner(current_state, ToMove(current_state))
           /\ terminal_score(current_state, current_state) = -1
    /\ Returns \subseteq WinOrLoss
    /\ \A n \in 1..Len(nodes) :
           /\ nodes[n].score # None => nodes[n].score \in WinOrLoss
           /\ (is_over(nodes[n].value) /\ nodes[n].score # None) =>
                  nodes[n].score = Some(-1)
    /\ \A i \in 1..Len(strat.scores) : strat.scores[i] \in {1, -1}
    /\ \A f \in 1..Len(frames) :
           \A i \in 1..Len(frames[f].scores) : frames[f].scores[i] \in {1, -1}

\* both evaluators have returned -1 for a state of the board of size 2 that
\* is over and has every cell claimed
C21_Witness ==
    /\ pc = "idle"
    /\ is_over(current_state)
    /\ Empties(current_state) = 0
    /\ res.score_r = Some(-1)
    /\ res.score_i = Some(-1)
    /\ board_size_of(current_state) = 2

====
